---- MODULE Spec2Model ----
(***************************************************************************)
(* Model of dm-data-dictionary-masker (src/main.py).                       *)
(*                                                                         *)
(* Python values are records [tag, s, n]: a JSON string, number, boolean   *)
(* or null, or a reference ("ref") to a container cell of the heap.        *)
(* Python's None is the same value as JSON null.  A heap cell is a dict or *)
(* a list; both keep their entries as an ordered sequence of [k, v].       *)
(* File contents are documents: trees [tag, s, n, items].                  *)
(***************************************************************************)
EXTENDS Integers, Sequences, FiniteSets, TLC

\* ---------------------------------------------------------------- bounds
MaxNodes == 3        \* nodes in an input JSON document
MaxDictEntries == 2  \* entries in a dictionary file's object
MaxRows == 2         \* data rows of a CSV input / lines of a TXT input

\* ---------------------------------------------------------------- values
Str(x) == [tag |-> "str", s |-> x, n |-> 0]
Num(x) == [tag |-> "num", s |-> "", n |-> x]
Bool(b) == [tag |-> "bool", s |-> "", n |-> IF b THEN 1 ELSE 0]
None == [tag |-> "null", s |-> "", n |-> 0]
Ref(a) == [tag |-> "ref", s |-> "", n |-> a]

IsRef(v) == v.tag = "ref"

\* The decimal text of the numbers the enumerated files use.
Decimal(n) == CASE n = 42 -> "42" [] n = 1 -> "1" [] n = 0 -> "0"

\* A lookup that compares the text of the two values (42 matches "42").
PyEqByText(a, b) ==
    LET Text(x) == IF x.tag = "num" THEN Decimal(x.n) ELSE x.s
    IN a.tag # "null" /\ b.tag # "null" /\ Text(a) = Text(b)

\* Python ==/hash on the values json.load produces: numbers and booleans
\* compare by numeric value (True == 1), strings by content, None to None.
PyEq(a, b) ==
    IF a.tag \in {"num", "bool"} /\ b.tag \in {"num", "bool"} THEN a.n = b.n
    ELSE a.tag = b.tag /\ a.s = b.s /\ a.n = b.n

\* ------------------------------------------------------------- documents
DScalar(v) == [tag |-> v.tag, s |-> v.s, n |-> v.n, items |-> << >>]
DList(elems) == [tag |-> "list", s |-> "", n |-> 0,
                 items |-> [i \in 1..Len(elems) |-> [k |-> "", v |-> elems[i]]]]
DDict(items) == [tag |-> "dict", s |-> "", n |-> 0, items |-> items]
IsContainerDoc(d) == d.tag \in {"dict", "list"}
ScalarOf(d) == [tag |-> d.tag, s |-> d.s, n |-> d.n]

\* ------------------------------------------------------------------ heap
EmptyCell(kind) == [kind |-> kind, items |-> << >>]

IsDict(h, v) == IsRef(v) /\ h[v.n].kind = "dict"
IsList(h, v) == IsRef(v) /\ h[v.n].kind = "list"

\* d[k] = v on a dict's ordered entries: overwrite in place or append.
DictSet(items, k, v) ==
    IF \E i \in 1..Len(items) : items[i].k = k
    THEN [i \in 1..Len(items) |->
            IF items[i].k = k THEN [k |-> k, v |-> v] ELSE items[i]]
    ELSE Append(items, [k |-> k, v |-> v])

\* Store entry (k, v) into cell a: dict assignment or list append.
Store(h, a, k, v) ==
    [h EXCEPT ![a].items =
        IF h[a].kind = "dict" THEN DictSet(@, k, v)
        ELSE Append(@, [k |-> "", v |-> v])]

\* json.load: build the Python object graph of a document on the heap.
RECURSIVE json_load(_, _)
RECURSIVE json_load_items(_, _, _, _)
json_load_items(h, a, items, i) ==
    IF i > Len(items) THEN h
    ELSE LET r == json_load(h, items[i].v)
         IN json_load_items(Store(r.heap, a, items[i].k, r.val), a, items, i + 1)
json_load(h, d) ==
    IF IsContainerDoc(d)
    THEN LET a == Len(h) + 1
         IN [heap |-> json_load_items(Append(h, EmptyCell(d.tag)), a, d.items, 1),
             val |-> Ref(a)]
    ELSE [heap |-> h, val |-> ScalarOf(d)]

\* The document a value denotes (what json.dump serialises).
RECURSIVE Deref(_, _)
Deref(h, v) ==
    IF IsRef(v)
    THEN [tag |-> h[v.n].kind, s |-> "", n |-> 0,
          items |-> [i \in 1..Len(h[v.n].items) |->
                        [k |-> h[v.n].items[i].k,
                         v |-> Deref(h, h[v.n].items[i].v)]]]
    ELSE DScalar(v)

\* Addresses of the containers reachable from a value.
RECURSIVE Reach(_, _)
Reach(h, v) ==
    IF IsRef(v)
    THEN {v.n} \cup UNION {Reach(h, h[v.n].items[i].v) : i \in 1..Len(h[v.n].items)}
    ELSE {}

\* ------------------------------------------------------------- mask_data
\* `data in dictionary` / `dictionary[data]` on the dict cell D.
PyIn(h, D, x) == \E i \in 1..Len(h[D.n].items) : PyEq(Str(h[D.n].items[i].k), x)
PyGet(h, D, x) ==
    LET i == CHOOSE j \in 1..Len(h[D.n].items) : PyEq(Str(h[D.n].items[j].k), x)
    IN h[D.n].items[i].v

RECURSIVE mask_data(_, _, _)
RECURSIVE mask_items(_, _, _, _, _)
RECURSIVE mask_items_and_keys(_, _, _, _, _)
\* A traversal that also looks the keys up in the dictionary.
mask_items_and_keys(h, a, items, i, D) ==
    IF i > Len(items) THEN h
    ELSE LET r == mask_data(h, items[i].v, D)
             k == IF h[a].kind = "dict" /\ PyIn(h, D, Str(items[i].k)) /\
                     PyGet(h, D, Str(items[i].k)).tag = "str"
                  THEN PyGet(h, D, Str(items[i].k)).s ELSE items[i].k
         IN mask_items_and_keys(Store(r.heap, a, k, r.val), a, items, i + 1, D)
mask_items(h, a, items, i, D) ==
    IF i > Len(items) THEN h
    ELSE LET r == mask_data(h, items[i].v, D)
         IN mask_items(Store(r.heap, a, items[i].k, r.val), a, items, i + 1, D)
\* A traversal that rewrites the container it is given.
mask_data_in_place(h, data, D) ==
    IF IsDict(h, data) \/ IsList(h, data)
    THEN [heap |-> mask_items([h EXCEPT ![data.n].items = << >>], data.n,
                              h[data.n].items, 1, D),
          val |-> data]
    ELSE IF PyIn(h, D, data) THEN [heap |-> h, val |-> PyGet(h, D, data)]
         ELSE [heap |-> h, val |-> data]

mask_data(h, data, D) ==
    IF IsDict(h, data) \/ IsList(h, data)
    THEN LET a == Len(h) + 1
         IN [heap |-> mask_items(Append(h, EmptyCell(h[data.n].kind)), a,
                                 h[data.n].items, 1, D),
             val |-> Ref(a)]
    ELSE IF PyIn(h, D, data) THEN [heap |-> h, val |-> PyGet(h, D, data)]
         ELSE [heap |-> h, val |-> data]

\* ---------------------------------------------------- files of the run
\* Scalars, object keys and dictionary entries the enumerated files use.
InputScalars == {Str("secret"), Num(42), Bool(TRUE), None}
InputKeys == {"a", "secret"}
DictKeys == <<"42", "REDACTED", "secret">>
DictValues == {DScalar(Str("REDACTED")), DScalar(Str("X")),
               DList(<<DScalar(Str("REDACTED"))>>)}

\* Sequences of m distinct keys.
RECURSIVE KeySeqs(_)
KeySeqs(m) ==
    IF m = 0 THEN {<< >>}
    ELSE {ks \in {Append(q, k) : q \in KeySeqs(m - 1), k \in InputKeys} :
             \A i, j \in 1..m : ks[i] = ks[j] => i = j}

\* JSON documents of exactly n nodes / sequences of documents of n nodes.
RECURSIVE DocsOfSize(_)
RECURSIVE Forests(_)
Forests(n) ==
    IF n = 0 THEN {<< >>}
    ELSE UNION {{<<d>> \o f : d \in DocsOfSize(k), f \in Forests(n - k)} : k \in 1..n}
DocsOfSize(n) ==
    IF n = 1
    THEN {DScalar(v) : v \in InputScalars} \cup {DList(<< >>), DDict(<< >>)}
    ELSE {DList(f) : f \in Forests(n - 1)} \cup
         UNION {{DDict([i \in 1..Len(f) |-> [k |-> ks[i], v |-> f[i]]]) :
                     ks \in KeySeqs(Len(f))} :
                f \in {g \in Forests(n - 1) : Len(g) <= Cardinality(InputKeys)}}
InputDocs == UNION {DocsOfSize(n) : n \in 1..MaxNodes}

\* Dictionary objects: up to MaxDictEntries entries, keys in DictKeys order.
RECURSIVE DictItems(_, _)
DictItems(from, left) ==
    {<< >>} \cup
    (IF left = 0 THEN {}
     ELSE UNION {{<<[k |-> DictKeys[i], v |-> v]>> \o rest :
                      v \in DictValues, rest \in DictItems(i + 1, left - 1)} :
                 i \in from..Len(DictKeys)})
DictDocs == {DDict(items) : items \in DictItems(1, MaxDictEntries)} \cup
            {DList(<<DScalar(Str("secret"))>>), DScalar(Str("secret")), DScalar(None)}

NoDoc == DScalar(None)
NoFile == [status |-> "missing", doc |-> NoDoc, header |-> << >>, rows |-> << >>,
           lines |-> << >>]
JsonFile(d) == [NoFile EXCEPT !.status = "ok", !.doc = d]

DictFiles == {NoFile, [NoFile EXCEPT !.status = "unreadable"],
              [NoFile EXCEPT !.status = "malformed"]} \cup
             {JsonFile(d) : d \in DictDocs}

\* CSV text: a header row and data rows of cells (a row may be blank or
\* shorter than the header); an empty file has no header.
CsvRows == {<<"alice", "secret">>, <<"secret", "42">>, <<"alice">>, << >>}
RECURSIVE SeqsUpTo(_, _)
SeqsUpTo(S, n) ==
    IF n = 0 THEN {<< >>}
    ELSE SeqsUpTo(S, n - 1) \cup
         {Append(q, x) : q \in {r \in SeqsUpTo(S, n - 1) : Len(r) = n - 1}, x \in S}
CsvFiles == {[NoFile EXCEPT !.status = "ok"]} \cup
            {[NoFile EXCEPT !.status = "ok", !.header = <<"name", "role">>, !.rows = r] :
                r \in SeqsUpTo(CsvRows, MaxRows)}

\* TXT text: lines, each its stripped text and whether it carried
\* surrounding whitespace.
TxtLines == {[text |-> "secret", ws |-> FALSE], [text |-> "secret", ws |-> TRUE],
             [text |-> "42", ws |-> FALSE], [text |-> "", ws |-> TRUE]}
TxtFiles == {[NoFile EXCEPT !.status = "ok", !.lines = l] :
                l \in SeqsUpTo(TxtLines, MaxRows)}

\* The input file as the decoder selected by --input_format reads it.
InputCases ==
    ({"json", "csv", "txt"} \X {NoFile, [NoFile EXCEPT !.status = "unreadable"]}) \cup
    ({"json"} \X ({[NoFile EXCEPT !.status = "malformed"]} \cup
                  {JsonFile(d) : d \in InputDocs})) \cup
    ({"csv"} \X CsvFiles) \cup ({"txt"} \X TxtFiles)

\* --------------------------------------------------------------- logging
Entry(level, msg) == [level |-> level, msg |-> msg]

\* ------------------------------------------------------- load_dictionary
\* Result: the heap, the returned value (None on failure), the log lines.
load_dictionary(h, file) ==
    IF file.status = "missing"
    THEN [heap |-> h, val |-> None,
          log |-> <<Entry("ERROR", "Dictionary file not found")>>]
    ELSE IF file.status = "malformed"
    THEN [heap |-> h, val |-> None,
          log |-> <<Entry("ERROR", "Invalid JSON in dictionary file")>>]
    ELSE IF file.status = "unreadable"
    THEN [heap |-> h, val |-> None,
          log |-> <<Entry("ERROR", "Error loading dictionary")>>]
    ELSE LET r == json_load(h, file.doc)
         IN IF ~IsDict(r.heap, r.val)
            THEN [heap |-> r.heap, val |-> None,
                  log |-> <<Entry("ERROR", "Dictionary file must contain a JSON object")>>]
            ELSE [heap |-> r.heap, val |-> r.val, log |-> << >>]

\* ------------------------------------------------------- load_input_data
\* csv.DictReader: the first row names the fields, blank rows are skipped,
\* a short row is padded with None.
DictReader(file) ==
    LET rows == SelectSeq(file.rows, LAMBDA r : r # << >>)
        Row(r) == DDict([i \in 1..Len(file.header) |->
                     [k |-> file.header[i],
                      v |-> IF i <= Len(r) THEN DScalar(Str(r[i])) ELSE DScalar(None)]])
    IN IF file.header = << >> THEN DList(<< >>)
       ELSE DList([i \in 1..Len(rows) |-> Row(rows[i])])

\* [line.strip() for line in f]
StripLines(file) ==
    DList([i \in 1..Len(file.lines) |-> DScalar(Str(file.lines[i].text))])

load_input_data(h, file, input_format) ==
    IF file.status = "missing"
    THEN [heap |-> h, val |-> None,
          log |-> <<Entry("ERROR", "Input file not found")>>]
    ELSE IF file.status = "unreadable"
    THEN [heap |-> h, val |-> None,
          log |-> <<Entry("ERROR", "Error loading input data")>>]
    ELSE IF input_format = "json"
    THEN IF file.status = "malformed"
         THEN [heap |-> h, val |-> None,
               log |-> <<Entry("ERROR", "Invalid JSON in input file")>>]
         ELSE json_load(h, file.doc) @@ [log |-> << >>]
    ELSE IF input_format = "csv"
    THEN json_load(h, DictReader(file)) @@ [log |-> << >>]
    ELSE json_load(h, StripLines(file)) @@ [log |-> << >>]

\* ----------------------------------------------------- write_output_data
\* The output file: whether this run opened (and so truncated) it, and its
\* content; "old" is whatever the path held before the run.
OldFile == [opened |-> FALSE, kind |-> "old", doc |-> NoDoc, header |-> << >>,
            rows |-> << >>, lines |-> << >>]
Truncated == [OldFile EXCEPT !.opened = TRUE, !.kind = "empty"]

\* str(x) as a text; the text of a container is its repr.
PyStr(d) ==
    CASE d.tag = "str" -> DScalar(Str(d.s))
      [] d.tag = "num" -> DScalar(Str(Decimal(d.n)))
      [] d.tag = "bool" -> DScalar(Str(IF d.n = 1 THEN "True" ELSE "False"))
      [] d.tag = "null" -> DScalar(Str("None"))
      [] OTHER -> [tag |-> "repr", s |-> "", n |-> 0, items |-> <<[k |-> "", v |-> d]>>]
\* The csv writer leaves None as an empty cell.
CsvCell(d) == IF d.tag = "null" THEN DScalar(Str("")) ELSE PyStr(d)

Keys(items) == [i \in 1..Len(items) |-> items[i].k]
HasKey(items, k) == \E i \in 1..Len(items) : items[i].k = k
Get(items, k) == items[CHOOSE i \in 1..Len(items) : items[i].k = k].v

\* csv.DictWriter(fieldnames=keys).writerows: every row in turn; a row with
\* a key outside fieldnames raises ValueError, the rows before it are
\* already written; a missing key is written as "".
DictWriter(h, data, keys) ==
    LET rows == [i \in 1..Len(h[data.n].items) |-> Deref(h, h[data.n].items[i].v).items]
        Wrong(r) == \E i \in 1..Len(r) : \A j \in 1..Len(keys) : keys[j] # r[i].k
        bad == {i \in 1..Len(rows) : Wrong(rows[i])}
        upto == IF bad = {} THEN Len(rows)
                ELSE (CHOOSE i \in bad : \A j \in bad : i <= j) - 1
        Line(r) == [j \in 1..Len(keys) |->
                       IF HasKey(r, keys[j]) THEN CsvCell(Get(r, keys[j]))
                       ELSE DScalar(Str(""))]
    IN [rows |-> [i \in 1..upto |-> Line(rows[i])], raised |-> bad # {}]

WriteError == <<Entry("ERROR", "Error writing output data")>>

\* Result of each branch: the output file, whether open() was called on
\* it, the log lines.  fault is what the file system does to this run:
\* "open" makes open() raise, "write" makes the first write raise, "none"
\* lets both succeed.
write_json(h, data, f, fault) ==
    IF fault = "open" THEN [file |-> f, called |-> TRUE, log |-> WriteError]
    ELSE IF fault = "write"
    THEN [file |-> Truncated, called |-> TRUE, log |-> WriteError]
    ELSE [file |-> [Truncated EXCEPT !.kind = "json", !.doc = Deref(h, data)],
          called |-> TRUE, log |-> << >>]

\* Lines 131-135: the header from the first row's keys, then the rows.
write_csv_rows(h, data, f, fault) ==
    LET keys == Keys(h[h[data.n].items[1].v.n].items)
        w == DictWriter(h, data, keys)
    IN IF fault = "open"
       THEN [file |-> f, called |-> TRUE, log |-> WriteError]
       ELSE IF fault = "write"
       THEN [file |-> Truncated, called |-> TRUE, log |-> WriteError]
       ELSE [file |-> [Truncated EXCEPT
                          !.kind = IF w.raised THEN "partial" ELSE "csv",
                          !.header = keys, !.rows = w.rows],
             called |-> TRUE,
             log |-> IF w.raised THEN WriteError ELSE << >>]

ListOfDicts(h, data) ==
    /\ IsList(h, data)
    /\ \A i \in 1..Len(h[data.n].items) : IsDict(h, h[data.n].items[i].v)

\* A CSV branch without the `if data:` test: data[0] of an empty list
\* raises IndexError, which the handler logs.
write_csv_unguarded(h, data, f, fault) ==
    IF ~ListOfDicts(h, data)
    THEN [file |-> f, called |-> FALSE,
          log |-> <<Entry("ERROR", "CSV output requires a list of dictionaries")>>]
    ELSE IF h[data.n].items # << >> THEN write_csv_rows(h, data, f, fault)
    ELSE [file |-> f, called |-> FALSE, log |-> WriteError]

write_csv(h, data, f, fault) ==
    IF ~ListOfDicts(h, data)
    THEN [file |-> f, called |-> FALSE,
          log |-> <<Entry("ERROR", "CSV output requires a list of dictionaries")>>]
    ELSE IF h[data.n].items # << >> THEN write_csv_rows(h, data, f, fault)
    ELSE [file |-> f, called |-> FALSE,
          log |-> <<Entry("WARNING", "No data to write to CSV file")>>]

\* Lines 142-144: one line per element.
write_txt_lines(h, data, f, fault) ==
    IF fault = "open"
    THEN [file |-> f, called |-> TRUE, log |-> WriteError]
    ELSE IF fault = "write" /\ h[data.n].items # << >>
    THEN [file |-> Truncated, called |-> TRUE, log |-> WriteError]
    ELSE [file |-> [Truncated EXCEPT !.kind = "txt",
                       !.lines = [i \in 1..Len(h[data.n].items) |->
                           PyStr(Deref(h, h[data.n].items[i].v))]],
          called |-> TRUE, log |-> << >>]

\* A TXT branch that opens the path before it tests the shape.
write_txt_open_first(h, data, f, fault) ==
    IF fault = "open"
    THEN [file |-> f, called |-> TRUE, log |-> WriteError]
    ELSE IF ~IsList(h, data)
    THEN [file |-> Truncated, called |-> TRUE,
          log |-> <<Entry("ERROR", "TXT output requires a list of strings")>>]
    ELSE write_txt_lines(h, data, f, fault)

write_txt(h, data, f, fault) ==
    IF ~IsList(h, data)
    THEN [file |-> f, called |-> FALSE,
          log |-> <<Entry("ERROR", "TXT output requires a list of strings")>>]
    ELSE write_txt_lines(h, data, f, fault)

write_output_data(h, data, f, output_format, fault) ==
    IF output_format = "json" THEN write_json(h, data, f, fault)
    ELSE IF output_format = "csv" THEN write_csv(h, data, f, fault)
    ELSE write_txt(h, data, f, fault)

\* ------------------------------------------------------------------ main
VARIABLES
    pc,           \* position in main
    args,         \* [input_format, output_format] as parsed by argparse
    dictFile,     \* the dictionary file
    inputFile,    \* the input file
    outFile,      \* the output file
    opened,       \* the files open() has been called on
    heap,         \* the Python containers allocated so far
    dictionary,   \* main's local: the loaded dictionary
    input_data,   \* main's local: the decoded input
    masked_data,  \* main's local: the masked data
    log,          \* the log lines emitted
    exitCode,     \* the process exit status, -1 while running
    stages        \* the stages run so far, in order
vars == <<pc, args, dictFile, inputFile, outFile, opened, heap, dictionary,
          input_data, masked_data, log, exitCode, stages>>

Formats == {"json", "csv", "txt"}
Faults == {"none", "open", "write"}

Init ==
    /\ pc = "Start"
    /\ dictFile \in DictFiles
    /\ \E c \in InputCases, o \in Formats :
          /\ args = [input_format |-> c[1], output_format |-> o]
          /\ inputFile = c[2]
    /\ outFile = OldFile
    /\ opened = {}
    /\ heap = << >>
    /\ dictionary = None
    /\ input_data = None
    /\ masked_data = None
    /\ log = << >>
    /\ exitCode = -1
    /\ stages = << >>

Exit(code) ==
    /\ pc' = IF code = 0 THEN "Done" ELSE "Failed"
    /\ exitCode' = code

\* main, lines 156-169: an empty path argument ends the run.
ParseArgs ==
    /\ pc = "Start"
    /\ \E empty \in BOOLEAN :
          IF empty
          THEN /\ log' = Append(log, Entry("ERROR",
                            "Input file, dictionary file, and output file are required"))
               /\ Exit(1)
          ELSE /\ pc' = "LoadDictionary"
               /\ UNCHANGED <<log, exitCode>>
    /\ UNCHANGED <<args, dictFile, inputFile, outFile, opened, heap, dictionary,
                   input_data, masked_data, stages>>

\* main, lines 171-174.
LoadDictionary ==
    /\ pc = "LoadDictionary"
    /\ LET r == load_dictionary(heap, dictFile)
       IN /\ heap' = r.heap
          /\ dictionary' = r.val
          /\ log' = log \o r.log
          /\ IF r.val = None THEN Exit(1)
             ELSE pc' = "DecodeInput" /\ UNCHANGED exitCode
    /\ opened' = opened \cup {"dictionary"}
    /\ stages' = Append(stages, "LoadDictionary")
    /\ UNCHANGED <<args, dictFile, inputFile, outFile, input_data, masked_data>>

\* A decode stage that goes on to mask whatever load_input_data returned.
DecodeInputUnchecked ==
    /\ pc = "DecodeInput"
    /\ LET r == load_input_data(heap, inputFile, args.input_format)
       IN /\ heap' = r.heap
          /\ input_data' = r.val
          /\ log' = log \o r.log
    /\ pc' = "Mask"
    /\ opened' = opened \cup {"input"}
    /\ stages' = Append(stages, "DecodeInput")
    /\ UNCHANGED <<args, dictFile, inputFile, outFile, dictionary, masked_data,
                   exitCode>>

\* main, lines 176-179.
DecodeInput ==
    /\ pc = "DecodeInput"
    /\ LET r == load_input_data(heap, inputFile, args.input_format)
       IN /\ heap' = r.heap
          /\ input_data' = r.val
          /\ log' = log \o r.log
          /\ IF r.val = None THEN Exit(1)
             ELSE pc' = "Mask" /\ UNCHANGED exitCode
    /\ opened' = opened \cup {"input"}
    /\ stages' = Append(stages, "DecodeInput")
    /\ UNCHANGED <<args, dictFile, inputFile, outFile, dictionary, masked_data>>

\* main, lines 181-182.
Mask ==
    /\ pc = "Mask"
    /\ LET r == mask_data(heap, input_data, dictionary)
       IN /\ heap' = r.heap
          /\ masked_data' = r.val
    /\ pc' = "EncodeOutput"
    /\ stages' = Append(stages, "Mask")
    /\ UNCHANGED <<args, dictFile, inputFile, outFile, opened, dictionary,
                   input_data, log, exitCode>>

\* main, lines 184-187: write_output_data returns normally whatever
\* happened, main logs completion and returns.
EncodeOutput ==
    /\ pc = "EncodeOutput"
    /\ \E fault \in Faults :
          LET r == write_output_data(heap, masked_data, outFile,
                                     args.output_format, fault)
          IN /\ outFile' = r.file
             /\ opened' = IF r.called THEN opened \cup {"output"} ELSE opened
             /\ log' = (log \o r.log) \o <<Entry("INFO", "Data masking complete")>>
    /\ Exit(0)
    /\ stages' = Append(stages, "EncodeOutput")
    /\ UNCHANGED <<args, dictFile, inputFile, heap, dictionary, input_data,
                   masked_data>>

Next == ParseArgs \/ LoadDictionary \/ DecodeInput \/ Mask \/ EncodeOutput

Spec == Init /\ [][Next]_vars

\* The runs over the files of at most one entry, row or line: every outcome
\* of every stage occurs among them.  main is sequential and each of its
\* steps returns, so a run that can take a step takes it.
InitShort ==
    /\ Init
    /\ Len(dictFile.doc.items) <= 1
    /\ Len(inputFile.doc.items) <= 1
    /\ Len(inputFile.rows) <= 1
    /\ Len(inputFile.lines) <= 1
FairSpec == InitShort /\ [][Next]_vars /\ WF_vars(Next)

\* ================================================================ claims
Terminal == pc \in {"Done", "Failed"}
Masked == Len(stages) >= 3
Encoded == Len(stages) >= 4
Logged(level) == \E i \in 1..Len(log) : log[i].level = level
LoggedMsg(level, msg) == \E i \in 1..Len(log) : log[i] = Entry(level, msg)

\* The decoded input, the loaded dictionary and the masked data as trees.
V == Deref(heap, input_data)
D == Deref(heap, dictionary)
M == Deref(heap, masked_data)
Flat(d) == \A i \in 1..Len(d.items) : ~IsContainerDoc(d.items[i].v)

\* m keeps every Object of v (same keys, same order) and every Sequence of
\* v (same length); where v has a Scalar, m may hold another value, which
\* is a Scalar when the dictionary is flat.
RECURSIVE SameShape(_, _, _)
SameShape(v, m, flat) ==
    IF IsContainerDoc(v)
    THEN /\ m.tag = v.tag
         /\ Len(m.items) = Len(v.items)
         /\ \A i \in 1..Len(v.items) :
               /\ m.items[i].k = v.items[i].k
               /\ SameShape(v.items[i].v, m.items[i].v, flat)
    ELSE flat => ~IsContainerDoc(m)

\* C1: mask_data(V, D) has the shape of V: an Object stays an Object with
\* the same keys in the same order (a key is never replaced, even one that
\* is a key of D), a Sequence stays a Sequence of the same length, and only
\* Scalar leaves differ.
C1_ShapePreserved == Masked => SameShape(V, M, Flat(D))

\* C1 witness: an Object whose key "secret" is a dictionary key and whose
\* value was replaced keeps that key.
C1_Witness ==
    /\ Masked /\ V.tag = "dict" /\ Len(V.items) = 2
    /\ V.items[1].k = "secret" /\ HasKey(D.items, "secret")
    /\ M.items[1].k = "secret" /\ M.items[1].v # V.items[1].v

\* The replacement of a Scalar by exact match of type and content against
\* the keys of the dictionary file's object.
ExactMask(x) ==
    IF x.tag = "str" /\ HasKey(dictFile.doc.items, x.s)
    THEN Get(dictFile.doc.items, x.s) ELSE x
RECURSIVE LeavesExact(_, _)
LeavesExact(v, m) ==
    IF IsContainerDoc(v)
    THEN /\ Len(m.items) = Len(v.items)
         /\ \A i \in 1..Len(v.items) : LeavesExact(v.items[i].v, m.items[i].v)
    ELSE m = ExactMask(v)

\* C2: a Scalar s is replaced by D[s] when it matches a key of D by exact
\* type and content and is returned unchanged otherwise; a number, boolean
\* or null never matches the string keys of a loaded dictionary.
C2_ExactMatchOnly == Masked => LeavesExact(V, M)

\* C2 witness: with keys "42" and "secret" in the dictionary, the string
\* "secret" was replaced and the number 42 was not.
C2_Witness ==
    /\ Masked /\ HasKey(D.items, "42") /\ HasKey(D.items, "secret")
    /\ V = DList(<<DScalar(Str("secret")), DScalar(Num(42))>>)
    /\ M = DList(<<Get(D.items, "secret"), DScalar(Num(42))>>)
    /\ Get(D.items, "secret") # DScalar(Str("secret"))

\* C3: a run in which a stage failed (an ERROR was logged) ends with exit
\* code 1 and without the completion message.
C3_FailureExitsNonZero ==
    (Terminal /\ Logged("ERROR")) =>
        exitCode = 1 /\ ~LoggedMsg("INFO", "Data masking complete")

StageOrder == <<"LoadDictionary", "DecodeInput", "Mask", "EncodeOutput">>
StagesInOrder ==
    /\ Len(stages) <= Len(StageOrder)
    /\ stages = SubSeq(StageOrder, 1, Len(stages))
    /\ (Len(stages) >= 1 /\ dictionary = None) =>
          /\ pc = "Failed" /\ Len(stages) = 1
          /\ opened = {"dictionary"} /\ outFile = OldFile
    /\ (Len(stages) >= 2 /\ input_data = None) =>
          /\ pc = "Failed" /\ Len(stages) = 2
          /\ "output" \notin opened /\ outFile = OldFile

\* C4: the stages run in the order LoadDictionary, DecodeInput, Mask,
\* EncodeOutput and the run reaches Done or Failed; after a failed
\* dictionary load the input file is never read, and after a failed load or
\* decode the output file is never opened or written.
C4_SequentialStages == []StagesInOrder /\ <>Terminal

\* C4 witness: a run that failed in the dictionary load has run that stage
\* only and has opened the dictionary file only.
C4_Witness ==
    /\ pc = "Failed" /\ stages = <<"LoadDictionary">>
    /\ opened = {"dictionary"} /\ inputFile.status = "ok"

\* C5: with a valid JSON input document and a valid dictionary, a run from
\* json to json whose writes succeed reaches Done with exit code 0 and the
\* output file holds the JSON encoding of the masked input.
C5_JsonRunSucceeds ==
    (/\ Terminal /\ stages # << >>
     /\ args = [input_format |-> "json", output_format |-> "json"]
     /\ inputFile.status = "ok"
     /\ dictFile.status = "ok" /\ dictFile.doc.tag = "dict" /\ Flat(dictFile.doc)
     /\ ~LoggedMsg("ERROR", "Error writing output data"))
    => /\ pc = "Done" /\ exitCode = 0
       /\ outFile.kind = "json" /\ LeavesExact(inputFile.doc, outFile.doc)

\* C6: an empty Sequence encoded as CSV is a warning: the run ends with
\* exit code 0, no ERROR is logged and the output path is never opened.
C6_EmptyCsvIsWarning ==
    (Encoded /\ args.output_format = "csv" /\ M = DList(<< >>)) =>
        /\ pc = "Done" /\ exitCode = 0
        /\ LoggedMsg("WARNING", "No data to write to CSV file")
        /\ ~Logged("ERROR")
        /\ "output" \notin opened /\ outFile = OldFile

\* C6 witness: a header-only CSV input written as CSV.
C6_Witness ==
    /\ pc = "Done" /\ args = [input_format |-> "csv", output_format |-> "csv"]
    /\ inputFile.header # << >> /\ M = DList(<< >>)

\* Masking the masked data once more.
ReMasked ==
    LET r == mask_data(heap, masked_data, dictionary) IN Deref(r.heap, r.val)
NoValueIsKey ==
    \A i, j \in 1..Len(D.items) : D.items[i].v # DScalar(Str(D.items[j].k))

\* C7: a Scalar that is a key of D is replaced by exactly D[s], also when
\* D[s] is a key of D, and masking is idempotent whenever no value of D is
\* a key of D.
C7_SinglePass ==
    Masked =>
        /\ (V.tag = "str" /\ HasKey(D.items, V.s)) => M = Get(D.items, V.s)
        /\ NoValueIsKey => ReMasked = M

C9_DictionaryIsFlat ==
    /\ (Len(stages) >= 1 /\ dictionary # None) =>
          dictFile.doc.tag = "dict" /\ Flat(D)
    /\ (Len(stages) >= 1 /\ dictFile.status = "ok" /\ dictFile.doc.tag # "dict") =>
          dictionary = None /\ Logged("ERROR") /\ exitCode = 1

Untouched == "output" \notin opened /\ outFile = OldFile

\* C10: CSV output of anything but a Sequence of Objects and TXT output of
\* anything but a Sequence are rejected before the output path is opened,
\* so a JSON input whose top level is an Object never yields CSV or TXT
\* output.
C10_ShapeCheckedBeforeOpen ==
    Encoded =>
        /\ (args.output_format = "csv" /\
            ~(M.tag = "list" /\ \A i \in 1..Len(M.items) : M.items[i].v.tag = "dict"))
           => LoggedMsg("ERROR", "CSV output requires a list of dictionaries") /\ Untouched
        /\ (args.output_format = "txt" /\ M.tag # "list")
           => LoggedMsg("ERROR", "TXT output requires a list of strings") /\ Untouched
        /\ (args.output_format \in {"csv", "txt"} /\ V.tag = "dict") => Untouched

\* C10 witness: an Object read from JSON and sent to TXT output was
\* rejected.
C10_Witness ==
    /\ pc = "Done" /\ args = [input_format |-> "json", output_format |-> "txt"]
    /\ V.tag = "dict" /\ V.items # << >>
    /\ LoggedMsg("ERROR", "TXT output requires a list of strings")

====
